---- MODULE Spec2Model ----
(***************************************************************************)
(* State-machine model of mslib.mscolab.file_manager.FileManager: the      *)
(* relational tables (Operation, Permission, Change), the data directory   *)
(* with one git repository per operation, and one action per handler.      *)
(***************************************************************************)
EXTENDS Integers, Sequences, FiniteSets, TLC

\* ------------------------------------------------------------------ bounds
\* operation ids handed out by the Operation table (autoincrement)
MaxOps == 2
\* Change rows ever inserted (autoincrement ids)
MaxChanges == 2

\* ------------------------------------------------------- program constants
GROUP_POSTFIX == "Group"
\* days without use after which list_operations archives an operation
ARCHIVE_THRESHOLD == 30
\* the stub document: its text ends with a line terminator
STUB_CODE == <<"s", "\n">>
\* Python's None where a text (content, version name) is expected
None == <<"None">>

Users == {1, 2}
OpIds == 1..MaxOps
ChangeIds == 1..MaxChanges
Levels == {"creator", "admin", "collaborator", "viewer"}
\* levels a client passes to the bulk permission calls
GrantLevels == {"admin", "collaborator", "viewer"}
\* paths and categories are texts cut into tokens, so that endswith and
\* split can be computed on them
VersionNames == {None, <<"v1">>}

\* ------------------------------------------------------------- variables
VARIABLES
    Operation,    \* rows of the operations table: [id, path, category, active]
    Permission,   \* bag of rows [u_id, op_id, access_level] (row -> copies)
    Change,       \* rows of the changes table
    dirs,         \* data_dir: path -> [file: main.ftml, commits: git history]
    nextOpId,     \* next autoincrement id of Operation
    nextChangeId, \* next autoincrement id of Change
    last,         \* the last call: [call, level, ret]
    inflight      \* save_file calls run step by step: user -> [pc, locals]

vars == <<Operation, Permission, Change, dirs, nextOpId, nextChangeId, last, inflight>>
db == <<Operation, Permission, Change, dirs, nextOpId, nextChangeId>>

\* ---------------------------------------------------------- return values
RFalse == [tag |-> "False", val |-> <<>>]
RTrue == [tag |-> "True", val |-> <<>>]
RValue(v) == [tag |-> "value", val |-> v]
RRaise(exc) == [tag |-> exc, val |-> <<>>]

\* -------------------------------------------------------- text operations
\* str.splitlines() over texts whose only line terminator is "\n"
RECURSIVE SplitFrom(_, _, _)
SplitFrom(s, i, cur) ==
    IF i > Len(s) THEN (IF cur = <<>> THEN <<>> ELSE <<cur>>)
    ELSE IF s[i] = "\n" THEN <<cur>> \o SplitFrom(s, i + 1, <<>>)
    ELSE SplitFrom(s, i + 1, Append(cur, s[i]))

splitlines(s) == SplitFrom(s, 1, <<>>)

\* a diff that is never empty (a comparison that ignores its result)
unified_diff_never_empty(a, b) ==
    <<"---", "+++", "@@">> \o
    [i \in 1..Len(a) |-> "-"] \o [i \in 1..Len(b) |-> "+"]

\* difflib.unified_diff(a, b, lineterm=''): no line at all when the line
\* lists are equal, else the two header lines, a hunk header and the hunk
unified_diff(a, b) ==
    IF a = b THEN <<>>
    ELSE <<"---", "+++", "@@">> \o
         [i \in 1..Len(a) |-> "-"] \o [i \in 1..Len(b) |-> "+"]

\* repo.git.show('<hash>:main.ftml'): the blob as git prints it, with the
\* one trailing newline that GitPython strips from a command's stdout removed
git_show(blob) ==
    IF Len(blob) > 0 /\ blob[Len(blob)] = "\n"
    THEN SubSeq(blob, 1, Len(blob) - 1)
    ELSE blob

\* ------------------------------------------------------------ table access
Row(u, op, lvl) == [u_id |-> u, op_id |-> op, access_level |-> lvl]

\* number of Permission rows of table P for the pair (u, op)
RECURSIVE SumCopies(_, _)
SumCopies(P, S) ==
    IF S = {} THEN 0
    ELSE LET r == CHOOSE x \in S : TRUE
         IN P[r] + SumCopies(P, S \ {r})

RowCount(P, u, op) ==
    SumCopies(P, {r \in DOMAIN P : r.u_id = u /\ r.op_id = op})

\* Permission.query.filter_by(u_id=u, op_id=op).first(), as the access level
\* of the row found, "none" when there is no row
PermFirst(P, u, op) ==
    LET S == {r \in DOMAIN P : r.u_id = u /\ r.op_id = op}
    IN IF S = {} THEN "none" ELSE (CHOOSE r \in S : TRUE).access_level

\* db.session.add(Permission(u, op, lvl))
BagAdd(P, r) ==
    IF r \in DOMAIN P THEN [P EXCEPT ![r] = @ + 1]
    ELSE [x \in DOMAIN P \cup {r} |-> IF x = r THEN 1 ELSE P[x]]

RECURSIVE BagAddAll(_, _)
BagAddAll(P, rows) ==
    IF rows = <<>> THEN P ELSE BagAddAll(BagAdd(P, Head(rows)), Tail(rows))

\* query.filter(...).delete() of the rows deleted: the rows that stay
BagDelete(P, deleted) == [r \in DOMAIN P \ deleted |-> P[r]]

\* query.filter(Permission.op_id == op).filter(u_id.in_(ids)).update(level)
BagSetLevel(P, op, ids, lvl) ==
    LET \* the rows whose level changes, and what they become
        hit == {r \in DOMAIN P : r.op_id = op /\ r.u_id \in ids /\ r.access_level # lvl}
        img(r) == Row(r.u_id, r.op_id, lvl)
        kept == DOMAIN P \ hit
    IN IF hit = {} THEN P
       ELSE [x \in kept \cup {img(r) : r \in hit} |->
                (IF x \in kept THEN P[x] ELSE 0)
                + SumCopies(P, {r \in hit : img(r) = x})]

Range(s) == {s[i] : i \in 1..Len(s)}

OpById(id) == CHOOSE o \in Operation : o.id = id
OpExists(id) == \E o \in Operation : o.id = id
ChangeById(id) == CHOOSE c \in Change : c.id = id
ChangeExists(id) == \E c \in Change : c.id = id

\* path.endswith(GROUP_POSTFIX)
endswithGroup(path) == Len(path) > 0 /\ path[Len(path)] = GROUP_POSTFIX

\* path.split(GROUP_POSTFIX)[0]: the text before the first postfix
RECURSIVE splitGroup0(_)
splitGroup0(path) ==
    IF path = <<>> \/ Head(path) = GROUP_POSTFIX THEN <<>>
    ELSE <<Head(path)>> \o splitGroup0(Tail(path))

\* a test of the path that lets a space pass
malicious_separators_only(path) == \E i \in 1..Len(path) : path[i] \in {"/", "\\"}

\* path.find("/") != -1 or path.find("\\") != -1 or (" " in path)
malicious(path) == \E i \in 1..Len(path) : path[i] \in {"/", "\\", " "}

\* a permissions table without the unique index: no flush is refused
NoIntegrityError(P) == FALSE

\* the unique index of the permissions table on (u_id, op_id): flushing a
\* session that holds two rows for one pair raises IntegrityError
IntegrityError(P) ==
    \E r \in DOMAIN P :
        \/ P[r] > 1
        \/ \E q \in DOMAIN P : q # r /\ q.u_id = r.u_id /\ q.op_id = r.op_id

\* ------------------------------------------------------- permission checks
auth_type(u, op) == PermFirst(Permission, u, op)
is_member(u, op) == auth_type(u, op) # "none"
\* is_admin that takes every level but creator for admin
is_admin_any_level(u, op) == auth_type(u, op) \notin {"none", "creator"}

is_admin(u, op) == auth_type(u, op) = "admin"
is_creator(u, op) == auth_type(u, op) = "creator"
is_collaborator(u, op) == auth_type(u, op) = "collaborator"
is_viewer(u, op) == auth_type(u, op) = "viewer"

\* what a handler leaves in `last`: the call, the requester's access level
\* on the operation addressed when the call was made ("n/a" when the call
\* addresses no operation), and the value returned or exception raised; a
\* handler that runs as one step leaves the calls in progress alone
Called(call, u, op, ret) ==
    /\ last' = [call |-> call,
                level |-> IF op = 0 THEN "n/a" ELSE auth_type(u, op),
                ret |-> ret]
    /\ inflight' = inflight

\* ------------------------------------------------------ import_permissions
\* an import that copies the levels as they are
importLevel_as_is(lvl) == lvl

\* the level an imported row gets: creator is replaced by admin
importLevel(lvl) == IF lvl = "creator" THEN "admin" ELSE lvl

\* (u_id, access_level) pairs of a set of rows
Pairs(rows) == {<<r.u_id, r.access_level>> : r \in rows}

\* the two tests of the requester without the one on import_op
importRefused_current_only(P, import_op_id, current_op_id, u_id) ==
    IF PermFirst(P, u_id, current_op_id) \notin {"creator", "admin"}
    THEN <<"Not the creator or admin of this operation">>
    ELSE <<>>

\* the two tests of the requester: the message of the refusal, <<>> when
\* the requester passes both
importRefused(P, import_op_id, current_op_id, u_id) ==
    IF PermFirst(P, u_id, current_op_id) \notin {"creator", "admin"}
    THEN <<"Not the creator or admin of this operation">>
    ELSE IF PermFirst(P, u_id, import_op_id) = "none"
    THEN <<"Not a member of this operation">>
    ELSE <<>>

\* the lists returned for the events: add_users, modify_users, delete_users
importEvents(import_users, existing_users, new_perm, is_perm) ==
    LET both == import_users \cap existing_users
        level_of(prs, w) == (CHOOSE pr \in prs : pr[1] = w)[2]
    IN [add_users |-> import_users \ existing_users,
        modify_users |-> {w \in both : level_of(new_perm, w) # level_of(is_perm, w)},
        delete_users |-> existing_users \ import_users]

\* what the query of the creator row of current_op_id, which has no order,
\* may return with first(): any creator row <<row>>, or None, written <<>>,
\* when there is none
firstCreator(P, current_op_id) ==
    LET creators == {r \in DOMAIN P : /\ r.op_id = current_op_id
                                      /\ r.access_level = "creator"}
    IN IF creators = {} THEN {<<>>} ELSE {<<r>> : r \in creators}

\* import_permissions on the table P when the creator query returns
\* first: the table after the call and the value returned,
\* (flag, {add_users, modify_users, delete_users} | None, message)
importPermissionsWith(P, import_op_id, current_op_id, u_id, first) ==
    LET existing_perms == {r \in DOMAIN P : /\ r.op_id = current_op_id
                                            /\ r.u_id # u_id
                                            /\ r.access_level # "creator"}
        existing_users == {r.u_id : r \in existing_perms}
        current_operation_creator == first[1]
        import_perms == {r \in DOMAIN P : /\ r.op_id = import_op_id
                                          /\ r.u_id # u_id
                                          /\ r.u_id # current_operation_creator.u_id}
        import_users == {r.u_id : r \in import_perms}
        is_perm == Pairs(existing_perms)
        new_perm == {<<r.u_id, importLevel(r.access_level)>> : r \in import_perms}
        \* sorted(new_perm) == sorted(is_perm): the same pairs, each as often
        copies(rows, pr, f(_)) ==
            SumCopies(P, {r \in rows : <<r.u_id, f(r.access_level)>> = pr})
        same == /\ new_perm = is_perm
                /\ \A pr \in is_perm :
                       copies(import_perms, pr, importLevel) =
                       copies(existing_perms, pr, LAMBDA l : l)
        \* rows of existing users that are not in new_perm are deleted
        P1 == BagDelete(P, {r \in existing_perms :
                               <<r.u_id, r.access_level>> \notin new_perm})
        \* pairs of new_perm not in is_perm, added when the user has no row left
        news == {pr \in new_perm : pr \notin is_perm}
        new_u == {x \in {pr[1] : pr \in news} : PermFirst(P1, x, current_op_id) = "none"}
        P2 == [x \in DOMAIN P1 \cup
                     {Row(w, current_op_id,
                          (CHOOSE pr \in news : pr[1] = w)[2]) : w \in new_u}
               |-> IF x \in DOMAIN P1 THEN P1[x] ELSE 1]
        events == importEvents(import_users, existing_users, new_perm, is_perm)
        refusal == importRefused(P, import_op_id, current_op_id, u_id)
    IN  IF refusal # <<>>
        THEN [P |-> P, ret |-> [tag |-> "False", val |-> refusal]]
        ELSE IF first = <<>>
        THEN [P |-> P, ret |-> RRaise("AttributeError")]
        ELSE IF same
        THEN [P |-> P, ret |-> [tag |-> "False", val |-> <<"Permissions are already given">>]]
        ELSE IF IntegrityError(P2)
        THEN [P |-> P, ret |-> [tag |-> "False", val |-> <<"Some error occurred! Could not import permissions. Please try again.">>]]
        ELSE [P |-> P2, ret |-> [tag |-> "True", val |-> <<events>>]]

\* import_permissions where the operation has one creator row at most, as
\* after create_operation: the creator query has one answer
importPermissions(P, import_op_id, current_op_id, u_id) ==
    importPermissionsWith(P, import_op_id, current_op_id, u_id,
                          CHOOSE c \in firstCreator(P, current_op_id) : TRUE)

import_permissions(import_op_id, current_op_id, u_id) ==
    \E c \in firstCreator(Permission, current_op_id) :
        LET r == importPermissionsWith(Permission, import_op_id, current_op_id, u_id, c)
        IN /\ Permission' = r.P
           /\ Called("import_permissions", u_id, current_op_id, r.ret)
           /\ UNCHANGED <<Operation, Change, dirs, nextOpId, nextChangeId>>

\* --------------------------------------------------- operation life cycle
\* operations of a category, in the order of their ids
RECURSIVE IdsInOrder(_)
IdsInOrder(S) ==
    IF S = {} THEN <<>>
    ELSE LET m == CHOOSE x \in S : \A y \in S : x <= y
         IN <<m>> \o IdsInOrder(S \ {m})

opsOfCategory(Ops, category) ==
    IdsInOrder({o.id : o \in {x \in Ops : x.category = category}})

\* a directory made by makedir alone: no main.ftml, no repository
EmptyDir == [file |-> None, commits |-> <<>>]
\* the directory of a path holds main.ftml and its repository
HasFile(path) == path \in DOMAIN dirs /\ dirs[path].file # None

\* operation_file is still open when r.index.add reads main.ftml from the
\* disk: the initial commit holds what the buffered write has flushed by
\* then, anything from nothing to the text. No handler reads this blob (no
\* Change row points at the initial commit), so it is kept as one unknown
initialBlob == <<"whatever was flushed">>

\* a directory whose main.ftml is left empty
NewDir_empty_file(text) == [file |-> <<>>, commits |-> <<initialBlob>>]

\* makedir, main.ftml written, git init, add and the initial commit; the file
\* is closed, and its text complete, when the locals are dropped at return
NewDir(text) == [file |-> text, commits |-> <<initialBlob>>]

\* create_operation with its last_used argument, <<>> for None and <<day>>
\* for a datetime, and with the value utcnow() returns; datetimes are counted
\* in days
createOperation(path, u, last_used, content, category, active, utcnow) ==
    IF malicious(path) \/ (\E o \in Operation : o.path = path)
    THEN /\ Called("create_operation", u, 0, RFalse)
         /\ UNCHANGED db
    ELSE LET operation_id == nextOpId
             O1 == Operation \cup {[id |-> operation_id, path |-> path,
                                    category |-> category, active |-> active,
                                    last_used |-> IF last_used = <<>> THEN utcnow
                                                  ELSE last_used[1]]}
             \* this is the only insertion with "creator" access_level
             P1 == BagAdd(Permission, Row(u, operation_id, "creator"))
             group == category \o <<GROUP_POSTFIX>>
             templates == {o \in O1 : o.path = group}
             import_op == CHOOSE o \in templates : TRUE
             imported == importPermissions(P1, import_op.id, operation_id, u)
             P2 == IF ~endswithGroup(path) /\ templates # {} THEN imported.P ELSE P1
             text == IF content # None THEN content ELSE STUB_CODE
         IN /\ nextOpId <= MaxOps
            /\ Operation' = O1
            /\ nextOpId' = nextOpId + 1
            /\ Permission' = P2
            /\ IF path \in DOMAIN dirs
               THEN \* data.makedir: DirectoryExists, after the rows are committed
                    /\ dirs' = dirs
                    /\ Called("create_operation", u, 0, RRaise("DirectoryExists"))
               ELSE /\ dirs' = [d \in DOMAIN dirs \cup {path} |->
                                   IF d = path THEN NewDir(text) ELSE dirs[d]]
                    /\ Called("create_operation", u, 0, RTrue)
            /\ UNCHANGED <<Change, nextChangeId>>

\* create_operation called without last_used on the day the clock starts
create_operation(path, u, content, category, active) ==
    createOperation(path, u, <<>>, content, category, active, 0)

\* the imports of update_operation's loop over the operations of a category:
\* each call commits on its own; an exception ends the loop
RECURSIVE importInto(_, _, _, _)
importInto(P, op_id, ids, u) ==
    IF ids = <<>> THEN [P |-> P, raised |-> FALSE]
    ELSE LET r == importPermissions(P, op_id, Head(ids), u)
         IN IF r.ret.tag = "AttributeError" THEN [P |-> P, raised |-> TRUE]
            ELSE importInto(r.P, op_id, Tail(ids), u)

update_operation(op_id, attribute, value, u) ==
    IF ~is_admin(u, op_id) /\ ~is_creator(u, op_id)
    THEN /\ Called("update_operation", u, op_id, RFalse)
         /\ UNCHANGED db
    ELSE LET operation == OpById(op_id)
             set == (Operation \ {operation}) \cup
                    {[operation EXCEPT ![attribute] = value]}
         IN IF attribute # "path"
            THEN /\ Operation' = set
                 /\ Called("update_operation", u, op_id, RTrue)
                 /\ UNCHANGED <<Permission, Change, dirs, nextOpId, nextChangeId>>
            ELSE IF malicious(value) \/ value \in DOMAIN dirs
            THEN /\ Called("update_operation", u, op_id, RFalse)
                 /\ UNCHANGED db
            ELSE IF operation.path \notin DOMAIN dirs
            THEN \* makedir(value), then movedir finds no source directory
                 /\ dirs' = [d \in DOMAIN dirs \cup {value} |->
                                IF d = value THEN EmptyDir ELSE dirs[d]]
                 /\ Called("update_operation", u, op_id, RRaise("ResourceNotFound"))
                 /\ UNCHANGED <<Operation, Permission, Change, nextOpId, nextChangeId>>
            ELSE LET moved == [d \in (DOMAIN dirs \ {operation.path}) \cup {value} |->
                                  IF d = value THEN dirs[operation.path] ELSE dirs[d]]
                     category == splitGroup0(value)
                     r == IF endswithGroup(value)
                          THEN importInto(Permission, op_id,
                                          opsOfCategory(Operation, category), u)
                          ELSE [P |-> Permission, raised |-> FALSE]
                 IN /\ dirs' = moved
                    /\ Permission' = r.P
                    /\ Operation' = IF r.raised THEN Operation ELSE set
                    /\ Called("update_operation", u, op_id,
                              IF r.raised THEN RRaise("AttributeError") ELSE RTrue)
                    /\ UNCHANGED <<Change, nextOpId, nextChangeId>>

\* a delete that leaves the Change rows of the operation
\* a delete that removes the Change rows of every operation
changesLeft_none(C, op_id) == {}

changesLeft_all(C, op_id) == C

\* Change.query.filter_by(op_id=op_id).delete(): the rows that are left
changesLeft(C, op_id) == {c \in C : c.op_id # op_id}

\* a test that lets an admin delete as well
deleteRefusedFor_below_admin(u, op_id) == auth_type(u, op_id) \notin {"creator", "admin"}

\* if self.auth_type(user.id, op_id) != "creator": return False
deleteRefusedFor(u, op_id) == auth_type(u, op_id) # "creator"

delete_operation(op_id, u) ==
    IF deleteRefusedFor(u, op_id)
    THEN /\ Called("delete_operation", u, op_id, RFalse)
         /\ UNCHANGED db
    ELSE LET operation == OpById(op_id)
         IN IF operation.path \notin DOMAIN dirs
            THEN \* removetree raises before the commit
                 /\ Called("delete_operation", u, op_id, RRaise("ResourceNotFound"))
                 /\ UNCHANGED db
            ELSE
            /\ Permission' = BagDelete(Permission, {r \in DOMAIN Permission : r.op_id = op_id})
            /\ Change' = changesLeft(Change, op_id)
            /\ dirs' = [d \in DOMAIN dirs \ {operation.path} |-> dirs[d]]
            /\ Operation' = Operation \ {operation}
            /\ Called("delete_operation", u, op_id, RTrue)
            /\ UNCHANGED <<nextOpId, nextChangeId>>

get_operation_details(op_id, u) ==
    /\ Called("get_operation_details", u, op_id,
              IF is_member(u, op_id)
              THEN RValue(<<[id |-> op_id, path |-> OpById(op_id).path]>>)
              ELSE RFalse)
    /\ UNCHANGED db

\* (utcnow - operation.last_used).days > ARCHIVE_THRESHOLD
outdated(operation, utcnow) == utcnow - operation.last_used > ARCHIVE_THRESHOLD

\* list_operations calls update_operation(op_id, "active", False, user) for
\* the outdated operations of the user's Permission rows: it sets active
\* when the user is admin or creator and returns False otherwise
archivedBy(op_id, u, utcnow) ==
    /\ is_member(u, op_id)
    /\ outdated(OpById(op_id), utcnow)
    /\ is_admin(u, op_id) \/ is_creator(u, op_id)

\* the list is returned in the order of the Permission query, which has no
\* order: it is kept as the set of its entries
list_operations(u, skip_archived, utcnow) ==
    LET O1 == {IF archivedBy(o.id, u, utcnow) THEN [o EXCEPT !.active = FALSE] ELSE o
               : o \in Operation}
        listed == {o \in O1 : is_member(u, o.id) /\ (skip_archived => o.active)}
        operations == {[op_id |-> o.id, access_level |-> PermFirst(Permission, u, o.id),
                        path |-> o.path, category |-> o.category, active |-> o.active]
                       : o \in listed}
    IN /\ Operation' = O1
       /\ Called("list_operations", u, 0, RValue(operations))
       /\ UNCHANGED <<Permission, Change, dirs, nextOpId, nextChangeId>>

\* ------------------------------------------------------- bulk permissions
RECURSIVE newRows(_, _, _, _)
newRows(P, op_id, new_u_ids, access_level) ==
    IF new_u_ids = <<>> THEN <<>>
    ELSE (IF PermFirst(P, Head(new_u_ids), op_id) = "none"
          THEN <<Row(Head(new_u_ids), op_id, access_level)>> ELSE <<>>)
         \o newRows(P, op_id, Tail(new_u_ids), access_level)

\* a commit whose failure leaves the rows of the session in the table
afterCommit_no_rollback(P, P2, ret) == IF ret.tag \in {"True", "False"} THEN P2 ELSE P

\* db.session.commit(), and db.session.rollback() when it raises: the table
\* is the session's P2 after a commit and P, as before the call, otherwise
afterCommit(P, P2, ret) == IF ret.tag = "True" THEN P2 ELSE P

add_bulk_permission(op_id, u, new_u_ids, access_level) ==
    IF ~is_admin(u, op_id) /\ ~is_creator(u, op_id)
    THEN /\ Called("add_bulk_permission", u, op_id, RFalse)
         /\ UNCHANGED db
    ELSE LET P1 == BagAddAll(Permission, newRows(Permission, op_id, new_u_ids, access_level))
             operation == OpById(op_id)
             category == splitGroup0(operation.path)
             targets == {o \in Operation : /\ o.category = category
                                           /\ ~endswithGroup(o.path)}
             \* the loop variable of the first loop, left at the last id
             u_id == new_u_ids[Len(new_u_ids)]
             P2 == IF endswithGroup(operation.path)
                   THEN BagAddAll(P1, [i \in 1..Cardinality(targets) |->
                            Row(u_id, IdsInOrder({o.id : o \in targets})[i], access_level)])
                   ELSE P1
             ret == IF IntegrityError(P1) THEN RRaise("IntegrityError")
                    ELSE IF endswithGroup(operation.path) /\ targets # {} /\ new_u_ids = <<>>
                    THEN RRaise("UnboundLocalError")
                    ELSE IF IntegrityError(P2) THEN RFalse
                    ELSE RTrue
         IN /\ Permission' = afterCommit(Permission, P2, ret)
            /\ Called("add_bulk_permission", u, op_id, ret)
            /\ UNCHANGED <<Operation, Change, dirs, nextOpId, nextChangeId>>

\* the update of a template, repeated on every operation of its category
RECURSIVE setLevelOver(_, _, _, _)
setLevelOver(P, ids, u_ids, lvl) ==
    IF ids = <<>> THEN P
    ELSE setLevelOver(BagSetLevel(P, Head(ids), Range(u_ids), lvl), Tail(ids), u_ids, lvl)

modify_bulk_permission(op_id, u, u_ids, new_access_level) ==
    IF ~is_admin(u, op_id) /\ ~is_creator(u, op_id)
    THEN /\ Called("modify_bulk_permission", u, op_id, RFalse)
         /\ UNCHANGED db
    ELSE LET P1 == BagSetLevel(Permission, op_id, Range(u_ids), new_access_level)
             operation == OpById(op_id)
             category == splitGroup0(operation.path)
             P2 == IF endswithGroup(operation.path)
                   THEN setLevelOver(P1, opsOfCategory(Operation, category),
                                     u_ids, new_access_level)
                   ELSE P1
         IN /\ Permission' = IF IntegrityError(P2) THEN Permission ELSE P2
            /\ Called("modify_bulk_permission", u, op_id,
                      IF IntegrityError(P2) THEN RFalse ELSE RTrue)
            /\ UNCHANGED <<Operation, Change, dirs, nextOpId, nextChangeId>>

\* a delete that takes the rows of every user of the operation
deleteRows_all_users(P, op_id, u_ids) ==
    BagDelete(P, {r \in DOMAIN P : r.op_id = op_id})

deleteRows(P, op_id, u_ids) ==
    BagDelete(P, {r \in DOMAIN P : r.op_id = op_id /\ r.u_id \in Range(u_ids)})

\* a delete of a template that stays on the template
deleteOver_template_only(P, ids, u_ids) == P

\* the delete of a template, repeated on every operation of its category
RECURSIVE deleteOver(_, _, _)
deleteOver(P, ids, u_ids) ==
    IF ids = <<>> THEN P
    ELSE deleteOver(deleteRows(P, Head(ids), u_ids), Tail(ids), u_ids)

\* delete_bulk_permission whose self-leave test looks at the length only
delete_bulk_permission_length_only(op_id, u, u_ids) ==
    LET refused ==
            IF ~is_member(u, op_id) THEN TRUE
            ELSE IF ~is_admin(u, op_id) /\ ~is_creator(u, op_id)
            THEN Len(u_ids) # 1
            ELSE \/ \E x \in Range(u_ids) : ~is_member(x, op_id)
                 \/ (is_creator(u, op_id) /\ u \in Range(u_ids))
        P1 == deleteRows(Permission, op_id, u_ids)
        operation == OpById(op_id)
        category == splitGroup0(operation.path)
        P2 == IF endswithGroup(operation.path)
              THEN deleteOver(P1, opsOfCategory(Operation, category), u_ids)
              ELSE P1
    IN IF refused
       THEN /\ Called("delete_bulk_permission", u, op_id, RFalse)
            /\ UNCHANGED db
       ELSE /\ Permission' = P2
            /\ Called("delete_bulk_permission", u, op_id, RTrue)
            /\ UNCHANGED <<Operation, Change, dirs, nextOpId, nextChangeId>>

\* the early returns without the creator's test of their own id
deleteRefused_creator_may_leave(op_id, u, u_ids) ==
    IF ~is_member(u, op_id) THEN TRUE
    ELSE IF ~is_admin(u, op_id) /\ ~is_creator(u, op_id)
    THEN Len(u_ids) # 1 \/ u \notin Range(u_ids)
    ELSE \E x \in Range(u_ids) : ~is_member(x, op_id)

\* the early returns without the membership test of the targets
deleteRefused_targets_unchecked(op_id, u, u_ids) ==
    IF ~is_member(u, op_id) THEN TRUE
    ELSE IF ~is_admin(u, op_id) /\ ~is_creator(u, op_id)
    THEN Len(u_ids) # 1 \/ u \notin Range(u_ids)
    ELSE is_creator(u, op_id) /\ u \in Range(u_ids)

\* the early returns of delete_bulk_permission: the call is refused
deleteRefused(op_id, u, u_ids) ==
    IF ~is_member(u, op_id) THEN TRUE
    ELSE IF ~is_admin(u, op_id) /\ ~is_creator(u, op_id)
    THEN Len(u_ids) # 1 \/ u \notin Range(u_ids)
    ELSE \/ \E x \in Range(u_ids) : ~is_member(x, op_id)
         \/ (is_creator(u, op_id) /\ u \in Range(u_ids))

delete_bulk_permission(op_id, u, u_ids) ==
    LET refused == deleteRefused(op_id, u, u_ids)
        P1 == deleteRows(Permission, op_id, u_ids)
        operation == OpById(op_id)
        category == splitGroup0(operation.path)
        P2 == IF endswithGroup(operation.path)
              THEN deleteOver(P1, opsOfCategory(Operation, category), u_ids)
              ELSE P1
    IN IF refused
       THEN /\ Called("delete_bulk_permission", u, op_id, RFalse)
            /\ UNCHANGED db
       ELSE /\ Permission' = P2
            /\ Called("delete_bulk_permission", u, op_id, RTrue)
            /\ UNCHANGED <<Operation, Change, dirs, nextOpId, nextChangeId>>

\* ---------------------------------------------------- content and history
save_file(op_id, content, u) ==
    IF ~OpExists(op_id)
    THEN /\ Called("save_file", u, op_id, RFalse)
         /\ UNCHANGED db
    ELSE IF ~HasFile(OpById(op_id).path)
    THEN /\ Called("save_file", u, op_id, RRaise("ResourceNotFound"))
         /\ UNCHANGED db
    ELSE LET operation == OpById(op_id)
             dir == dirs[operation.path]
             old_data == dir.file
             diff == unified_diff(splitlines(old_data), splitlines(content))
             \* repo.index.commit: the hash is the place of the commit in the history
             hexsha == Len(dir.commits) + 1
         IN IF diff # <<>>
            THEN /\ nextChangeId <= MaxChanges
                 /\ dirs' = [dirs EXCEPT ![operation.path] =
                                [file |-> content, commits |-> Append(dir.commits, content)]]
                 /\ Change' = Change \cup {[id |-> nextChangeId, op_id |-> op_id, u_id |-> u,
                                            commit_hash |-> hexsha, version_name |-> None]}
                 /\ nextChangeId' = nextChangeId + 1
                 /\ Called("save_file", u, op_id, RTrue)
                 /\ UNCHANGED <<Operation, Permission, nextOpId>>
            ELSE \* data.writetext comes before the test of the diff
                 /\ dirs' = [dirs EXCEPT ![operation.path].file = content]
                 /\ Called("save_file", u, op_id, RFalse)
                 /\ UNCHANGED <<Operation, Permission, Change, nextOpId, nextChangeId>>

\* save_file run by two request threads, one step at a time: the query and
\* the read with the diff, the write of the file, the commit to the
\* repository, the insert of the Change row
Idle == [pc |-> "idle", op_id |-> 0, content |-> None, changed |-> FALSE,
         hexsha |-> 0, ret |-> RFalse]

Returned(u, op_id, ret) ==
    last' = [call |-> "save_file", level |-> auth_type(u, op_id), ret |-> ret]

\* lines 307-320: the Operation row, old_data and the diff
save_file_read(u, op_id, content) ==
    /\ inflight[u].pc = "idle"
    /\ nextChangeId + Cardinality({w \in DOMAIN inflight :
                                     inflight[w].pc \in {"write", "commit", "insert"}})
           <= MaxChanges
    /\ IF ~OpExists(op_id)
       THEN /\ inflight' = [inflight EXCEPT ![u] = [Idle EXCEPT !.pc = "done", !.op_id = op_id]]
            /\ Returned(u, op_id, RFalse)
       ELSE IF ~HasFile(OpById(op_id).path)
       THEN /\ inflight' = [inflight EXCEPT ![u] =
                               [Idle EXCEPT !.pc = "done", !.op_id = op_id,
                                            !.ret = RRaise("ResourceNotFound")]]
            /\ Returned(u, op_id, RRaise("ResourceNotFound"))
       ELSE LET old_data == dirs[OpById(op_id).path].file
                diff == unified_diff(splitlines(old_data), splitlines(content))
            IN /\ inflight' = [inflight EXCEPT ![u] =
                                  [Idle EXCEPT !.pc = "write", !.op_id = op_id,
                                               !.content = content,
                                               !.changed = (diff # <<>>)]]
               /\ last' = last
    /\ UNCHANGED db

\* line 321: data.writetext, then the test of the diff of line 323
save_file_write(u) ==
    LET call == inflight[u]
        operation == OpById(call.op_id)
    IN /\ call.pc = "write"
       /\ dirs' = [dirs EXCEPT ![operation.path].file = call.content]
       /\ IF call.changed
          THEN /\ inflight' = [inflight EXCEPT ![u].pc = "commit"]
               /\ last' = last
          ELSE /\ inflight' = [inflight EXCEPT ![u].pc = "done"]
               /\ Returned(u, call.op_id, RFalse)
       /\ UNCHANGED <<Operation, Permission, Change, nextOpId, nextChangeId>>

\* lines 325-329: repo.index.add reads main.ftml as it is on the disk now
save_file_commit(u) ==
    LET call == inflight[u]
        operation == OpById(call.op_id)
        dir == dirs[operation.path]
    IN /\ call.pc = "commit"
       /\ dirs' = [dirs EXCEPT ![operation.path].commits = Append(dir.commits, dir.file)]
       /\ inflight' = [inflight EXCEPT ![u].pc = "insert",
                                       ![u].hexsha = Len(dir.commits) + 1]
       /\ UNCHANGED <<Operation, Permission, Change, nextOpId, nextChangeId, last>>

\* lines 331-334: the Change row with the hash of the commit
save_file_insert(u) ==
    LET call == inflight[u]
    IN /\ call.pc = "insert"
       /\ Change' = Change \cup {[id |-> nextChangeId, op_id |-> call.op_id, u_id |-> u,
                                  commit_hash |-> call.hexsha, version_name |-> None]}
       /\ nextChangeId' = nextChangeId + 1
       /\ inflight' = [inflight EXCEPT ![u].pc = "done", ![u].ret = RTrue]
       /\ Returned(u, call.op_id, RTrue)
       /\ UNCHANGED <<Operation, Permission, dirs, nextOpId>>

\* get_file without the test of the Permission row
getFile_no_permission_test(op_id, u) ==
    IF ~OpExists(op_id) THEN RFalse
    ELSE IF ~HasFile(OpById(op_id).path) THEN RRaise("ResourceNotFound")
    ELSE RValue(dirs[OpById(op_id).path].file)

getFile(op_id, u) ==
    IF ~is_member(u, op_id) THEN RFalse
    ELSE IF ~OpExists(op_id) THEN RFalse
    ELSE IF ~HasFile(OpById(op_id).path) THEN RRaise("ResourceNotFound")
    ELSE RValue(dirs[OpById(op_id).path].file)

get_file(op_id, u) ==
    /\ Called("get_file", u, op_id, getFile(op_id, u))
    /\ UNCHANGED db

\* rows ordered by created_at, oldest first
RECURSIVE newestFirst_ascending(_)
newestFirst_ascending(rows) ==
    IF rows = {} THEN <<>>
    ELSE LET c == CHOOSE x \in rows : \A y \in rows : x.id <= y.id
         IN <<[id |-> c.id, version_name |-> c.version_name, username |-> c.u_id]>>
            \o newestFirst_ascending(rows \ {c})

\* rows ordered by created_at, newest first: ids grow with created_at
RECURSIVE newestFirst(_)
newestFirst(rows) ==
    IF rows = {} THEN <<>>
    ELSE LET c == CHOOSE x \in rows : \A y \in rows : y.id <= x.id
         IN <<[id |-> c.id, version_name |-> c.version_name, username |-> c.u_id]>>
            \o newestFirst(rows \ {c})

getAllChanges(op_id, u, named_version) ==
    IF ~is_member(u, op_id) THEN RFalse
    ELSE RValue(newestFirst({c \in Change : /\ c.op_id = op_id
                                            /\ (named_version => c.version_name # None)}))

get_all_changes(op_id, u, named_version) ==
    /\ Called("get_all_changes", u, op_id, getAllChanges(op_id, u, named_version))
    /\ UNCHANGED db

getChangeContent(ch_id, u) ==
    IF ~ChangeExists(ch_id) THEN RRaise("AttributeError")
    ELSE LET change == ChangeById(ch_id)
             repo == dirs[OpById(change.op_id).path].commits
         IN IF ~is_member(u, change.op_id) THEN RFalse
            ELSE IF ~HasFile(OpById(change.op_id).path) THEN RRaise("NoSuchPathError")
            ELSE RValue(git_show(repo[change.commit_hash]))

get_change_content(ch_id, u) ==
    /\ Called("get_change_content", u,
              IF ChangeExists(ch_id) THEN ChangeById(ch_id).op_id ELSE 0,
              getChangeContent(ch_id, u))
    /\ UNCHANGED db

\* an update of the version name that reaches every Change of the operation
\* of the addressed Change
renamed_whole_operation(C, ch_id, version_name) ==
    {IF \E a \in C : a.id = ch_id /\ a.op_id = c.op_id
     THEN [c EXCEPT !.version_name = version_name] ELSE c : c \in C}

\* Change.query.filter(Change.id == ch_id).update({version_name: ...})
renamed(C, ch_id, version_name) ==
    {IF c.id = ch_id THEN [c EXCEPT !.version_name = version_name] ELSE c : c \in C}

set_version_name(ch_id, op_id, u_id, version_name) ==
    IF ~is_admin(u_id, op_id) /\ ~is_creator(u_id, op_id) /\ ~is_collaborator(u_id, op_id)
    THEN /\ Called("set_version_name", u_id, op_id, RFalse)
         /\ UNCHANGED db
    ELSE /\ Change' = renamed(Change, ch_id, version_name)
         /\ Called("set_version_name", u_id, op_id, RTrue)
         /\ UNCHANGED <<Operation, Permission, dirs, nextOpId, nextChangeId>>

undo_changes(ch_id, u) ==
    IF ~ChangeExists(ch_id)
    THEN /\ Called("undo_changes", u, 0, RRaise("AttributeError"))
         /\ UNCHANGED db
    ELSE LET ch == ChangeById(ch_id)
             operation == OpById(ch.op_id)
             dir == dirs[operation.path]
             file_content == git_show(dir.commits[ch.commit_hash])
             hexsha == Len(dir.commits) + 1
         IN IF ~is_admin(u, ch.op_id) /\ ~is_creator(u, ch.op_id) /\ ~is_collaborator(u, ch.op_id)
            THEN /\ Called("undo_changes", u, ch.op_id, RFalse)
                 /\ UNCHANGED db
            ELSE IF ~OpExists(ch.op_id)
            THEN /\ Called("undo_changes", u, ch.op_id, RFalse)
                 /\ UNCHANGED db
            ELSE IF ~HasFile(operation.path)
            THEN /\ Called("undo_changes", u, ch.op_id, RRaise("NoSuchPathError"))
                 /\ UNCHANGED db
            ELSE /\ nextChangeId <= MaxChanges
                 /\ dirs' = [dirs EXCEPT ![operation.path] =
                                [file |-> file_content,
                                 commits |-> Append(dir.commits, file_content)]]
                 /\ Change' = Change \cup {[id |-> nextChangeId, op_id |-> ch.op_id, u_id |-> u,
                                            commit_hash |-> hexsha, version_name |-> None]}
                 /\ nextChangeId' = nextChangeId + 1
                 /\ Called("undo_changes", u, ch.op_id, RTrue)
                 /\ UNCHANGED <<Operation, Permission, nextOpId>>

\* the steps of the try block of undo_changes at which the backing store
\* may raise: git show, writetext, index.add, index.commit
UndoFaults == {"show", "writetext", "add", "commit"}

\* undo_changes when it reaches its try block and the step `fault` raises:
\* the exception is caught and False returned; what the steps before the
\* fault did stays done. A writetext that raises has left main.ftml as it
\* was or, when the file was opened and truncated, empty
undo_changes_failing(ch_id, u, fault) ==
    /\ ChangeExists(ch_id)
    /\ LET ch == ChangeById(ch_id)
           operation == OpById(ch.op_id)
           dir == dirs[operation.path]
           file_content == git_show(dir.commits[ch.commit_hash])
       IN /\ is_admin(u, ch.op_id) \/ is_creator(u, ch.op_id) \/ is_collaborator(u, ch.op_id)
          /\ OpExists(ch.op_id)
          /\ HasFile(operation.path)
          /\ \E left \in (IF fault = "show" THEN {dir.file}
                           ELSE IF fault = "writetext" THEN {dir.file, <<>>}
                           ELSE {file_content}) :
                 dirs' = [dirs EXCEPT ![operation.path].file = left]
          /\ Called("undo_changes", u, ch.op_id, RFalse)
          /\ UNCHANGED <<Operation, Permission, Change, nextOpId, nextChangeId>>

\* ------------------------------------------------------------ the machine
Init ==
    /\ Operation = {}
    /\ Permission = [r \in {} |-> 0]
    /\ Change = {}
    /\ dirs = [d \in {} |-> 0]
    /\ nextOpId = 1
    /\ nextChangeId = 1
    /\ last = [call |-> "none", level |-> "n/a", ret |-> RFalse]
    /\ inflight = [u \in Users |-> Idle]

\* the ids a caller gives: those of the rows made so far and one of no row
GivenOpIds == {id \in OpIds : id <= nextOpId}
GivenChangeIds == {id \in ChangeIds : id <= nextChangeId}

\* inputs of the content specification
Contents == {None, <<"b">>}
Texts == {STUB_CODE, <<"s">>, <<"b">>}
FilePaths == {<<"alpha">>, <<"a", " ", "b">>}
OneId == {<<x>> : x \in Users}
IdLists == {<<>>} \cup OneId \cup {<<x, y>> : x, y \in Users}
\* content and history of an operation, with its members
Next ==
    \/ \E p \in FilePaths, u \in Users, c \in Contents :
           create_operation(p, u, c, <<"default">>, TRUE)
    \/ \E op \in GivenOpIds, u \in Users : get_operation_details(op, u)
    \/ \E op \in GivenOpIds, u \in Users, ids \in OneId, lvl \in GrantLevels :
           add_bulk_permission(op, u, ids, lvl)
    \/ \E op \in GivenOpIds, u \in Users, ids \in IdLists :
           delete_bulk_permission(op, u, ids)
    \/ \E op \in GivenOpIds, u \in Users, c \in Texts : save_file(op, c, u)
    \/ \E op \in GivenOpIds, u \in Users : get_file(op, u)
    \/ \E op \in GivenOpIds, u \in Users, named \in BOOLEAN : get_all_changes(op, u, named)
    \/ \E ch \in GivenChangeIds, u \in Users : get_change_content(ch, u)
    \/ \E ch \in GivenChangeIds, u \in Users : undo_changes(ch, u)

Spec == Init /\ [][Next]_vars

\* inputs of the permission specification
PermPaths == {<<"alpha">>, <<"tex", GROUP_POSTFIX>>}
PermLevels == {"admin", "viewer"}
PermCategories == {<<"tex">>}
DistinctIds == {ids \in IdLists : Cardinality(Range(ids)) = Len(ids)}

\* operations, templates and the Permission rows of their users
NextPerm ==
    \/ \E p \in PermPaths, u \in Users, cat \in PermCategories :
           create_operation(p, u, <<>>, cat, TRUE)
    \/ \E op \in GivenOpIds, u \in Users, p \in PermPaths :
           update_operation(op, "path", p, u)
    \/ \E op \in GivenOpIds, u \in Users, ids \in DistinctIds, lvl \in PermLevels :
           add_bulk_permission(op, u, ids, lvl)
    \/ \E op \in GivenOpIds, u \in Users, ids \in DistinctIds, lvl \in PermLevels :
           modify_bulk_permission(op, u, ids, lvl)
    \/ \E op \in GivenOpIds, u \in Users, ids \in DistinctIds :
           delete_bulk_permission(op, u, ids)
    \/ \E imp \in GivenOpIds, cur \in GivenOpIds, u \in Users :
           import_permissions(imp, cur, u)

SpecPerm == Init /\ [][NextPerm]_vars

\* inputs of the version specification
VerPaths == {<<"alpha">>, <<"beta">>}
VerTexts == {<<"b">>, <<"c">>}
VerLevels == {"viewer"}

\* two operations, their saved versions and the names of the versions
NextVer ==
    \/ \E p \in VerPaths, u \in Users :
           create_operation(p, u, None, <<"default">>, TRUE)
    \/ \E op \in GivenOpIds, u \in Users, ids \in OneId, lvl \in VerLevels :
           add_bulk_permission(op, u, ids, lvl)
    \/ \E op \in GivenOpIds, u \in Users, c \in VerTexts : save_file(op, c, u)
    \/ \E ch \in GivenChangeIds, op \in GivenOpIds, u \in Users, name \in VersionNames :
           set_version_name(ch, op, u, name)
    \/ \E ch \in GivenChangeIds, u \in Users : undo_changes(ch, u)
    \/ \E op \in GivenOpIds, u \in Users, named \in BOOLEAN : get_all_changes(op, u, named)

SpecVer == Init /\ [][NextVer]_vars

\* inputs of the template specification: two requesters, two other users
GroupPaths == {<<"tex", GROUP_POSTFIX>>, <<"z", GROUP_POSTFIX>>, <<"alpha">>}
GroupIds == {<<>>, <<2>>, <<3>>, <<2, 3>>, <<3, 2>>}
AllUsers == Users \cup {3}

\* Group templates of one category, its operations, and bulk permission
\* calls that name several users
NextGroup ==
    \/ \E p \in GroupPaths, u \in Users :
           create_operation(p, u, <<>>, <<"tex">>, TRUE)
    \/ \E op \in GivenOpIds, u \in Users, ids \in GroupIds, lvl \in PermLevels :
           add_bulk_permission(op, u, ids, lvl)
    \/ \E op \in GivenOpIds, u \in Users, ids \in GroupIds, lvl \in PermLevels :
           modify_bulk_permission(op, u, ids, lvl)
    \/ \E op \in GivenOpIds, u \in Users, ids \in GroupIds :
           delete_bulk_permission(op, u, ids)

SpecGroup == Init /\ [][NextGroup]_vars

\* inputs of the import specification: the level is any text the caller
\* passes, 'creator' included
ImportPaths == {<<"alpha">>, <<"beta">>}
ImportLevels == {"creator", "viewer"}

NextImport ==
    \/ \E p \in ImportPaths, u \in Users :
           create_operation(p, u, <<>>, <<"default">>, TRUE)
    \/ \E op \in GivenOpIds, u \in Users, ids \in DistinctIds, lvl \in ImportLevels :
           add_bulk_permission(op, u, ids, lvl)
    \/ \E op \in GivenOpIds, u \in Users, ids \in DistinctIds :
           delete_bulk_permission(op, u, ids)
    \/ \E imp \in GivenOpIds, cur \in GivenOpIds, u \in Users :
           import_permissions(imp, cur, u)

SpecImport == Init /\ [][NextImport]_vars

\* inputs of the life-cycle specification: two paths that pass the test of
\* the path and one for each character it refuses
LifePaths == {<<"alpha">>, <<"beta">>, <<"a", "/", "b">>, <<"a", "\\", "b">>,
              <<"a", " ", "b">>}
LifeTexts == {<<"b">>}
LifeLevels == {"admin", "viewer"}

\* operations made, written, renamed and deleted
NextLife ==
    \/ \E p \in LifePaths, u \in Users :
           create_operation(p, u, None, <<"default">>, TRUE)
    \/ \E op \in GivenOpIds, u \in Users, ids \in OneId, lvl \in LifeLevels :
           add_bulk_permission(op, u, ids, lvl)
    \/ \E op \in GivenOpIds, u \in Users, p \in LifePaths :
           update_operation(op, "path", p, u)
    \/ \E op \in GivenOpIds, u \in Users : delete_operation(op, u)
    \/ \E op \in GivenOpIds, u \in Users : get_operation_details(op, u)
    \/ \E op \in GivenOpIds, u \in Users, c \in LifeTexts : save_file(op, c, u)
    \/ \E op \in GivenOpIds, u \in Users : get_file(op, u)
    \/ \E ch \in GivenChangeIds, u \in Users : undo_changes(ch, u)

SpecLife == Init /\ [][NextLife]_vars

\* inputs of the archive specification: the days on which calls are made
Instants == {0, ARCHIVE_THRESHOLD, ARCHIVE_THRESHOLD + 1}
ArchivePaths == {<<"alpha">>, <<"beta">>}
ArchiveTexts == {<<"b">>}
ArchiveLevels == {"collaborator"}

\* operations that are left unused, listed and written
NextArchive ==
    \/ \E p \in ArchivePaths, u \in Users, now \in Instants :
           createOperation(p, u, <<>>, None, <<"default">>, TRUE, now)
    \/ \E op \in GivenOpIds, u \in Users, ids \in OneId, lvl \in ArchiveLevels :
           add_bulk_permission(op, u, ids, lvl)
    \/ \E u \in Users, skip_archived \in BOOLEAN, now \in Instants :
           list_operations(u, skip_archived, now)
    \/ \E op \in GivenOpIds, u \in Users, c \in ArchiveTexts : save_file(op, c, u)
    \/ \E ch \in GivenChangeIds, u \in Users : undo_changes(ch, u)

SpecArchive == Init /\ [][NextArchive]_vars

\* inputs of the race specification
RacePaths == {<<"alpha">>, <<"beta">>}
RaceTexts == {<<"b">>, <<"c">>}

\* two users, each with one save_file call that runs step by step
NextRace ==
    \/ \E p \in RacePaths, u \in Users :
           create_operation(p, u, None, <<"default">>, TRUE)
    \/ \E u \in Users, op \in GivenOpIds, c \in RaceTexts : save_file_read(u, op, c)
    \/ \E u \in Users : save_file_write(u)
    \/ \E u \in Users : save_file_commit(u)
    \/ \E u \in Users : save_file_insert(u)

SpecRace == Init /\ [][NextRace]_vars

\* inputs of the history specification
HistPaths == {<<"alpha">>, <<"beta">>}
HistTexts == {<<"b">>, <<"c">>}

\* the Change rows of operations that are written, named and deleted
NextHist ==
    \/ \E p \in HistPaths, u \in Users :
           create_operation(p, u, None, <<"default">>, TRUE)
    \/ \E op \in GivenOpIds, u \in Users, c \in HistTexts : save_file(op, c, u)
    \/ \E ch \in GivenChangeIds, u \in Users : undo_changes(ch, u)
    \/ \E ch \in GivenChangeIds, op \in GivenOpIds, u \in Users, name \in VersionNames :
           set_version_name(ch, op, u, name)
    \/ \E op \in GivenOpIds, u \in Users, named \in BOOLEAN : get_all_changes(op, u, named)
    \/ \E op \in GivenOpIds, u \in Users : delete_operation(op, u)

SpecHist == Init /\ [][NextHist]_vars

\* inputs of the fault specification
FaultPaths == {<<"alpha">>, <<"beta">>}
FaultTexts == {<<"b">>, <<"c">>}

\* content saved and restored on a backing store that may fail
NextFault ==
    \/ \E p \in FaultPaths, u \in Users :
           create_operation(p, u, None, <<"default">>, TRUE)
    \/ \E op \in GivenOpIds, u \in Users, c \in FaultTexts : save_file(op, c, u)
    \/ \E ch \in GivenChangeIds, u \in Users : undo_changes(ch, u)
    \/ \E ch \in GivenChangeIds, u \in Users, fault \in UndoFaults :
           undo_changes_failing(ch, u, fault)
    \/ \E op \in GivenOpIds, u \in Users : get_file(op, u)

SpecFault == Init /\ [][NextFault]_vars

\* inputs of the rename specification: three users, so that an operation
\* has a member who is neither its creator nor the requester
RenamePaths == {<<"alpha">>, <<"beta">>, <<"tex", GROUP_POSTFIX>>}
RenameIds == {<<x>> : x \in AllUsers}

\* operations of one category, one of which is renamed to the template
NextRename ==
    \/ \E p \in RenamePaths, u \in AllUsers :
           create_operation(p, u, <<>>, <<"tex">>, TRUE)
    \/ \E op \in GivenOpIds, u \in AllUsers, ids \in RenameIds, lvl \in PermLevels :
           add_bulk_permission(op, u, ids, lvl)
    \/ \E op \in GivenOpIds, u \in AllUsers, p \in RenamePaths :
           update_operation(op, "path", p, u)

SpecRename == Init /\ [][NextRename]_vars

\* ------------------------------------------------------------- properties
Accessors == {"get_file", "get_all_changes", "get_change_content", "get_operation_details"}
MemberLevels == {"creator", "admin", "collaborator", "viewer"}

\* the Change rows of an operation as get_all_changes lists them
historyLen(op_id) == Cardinality({c \in Change : c.op_id = op_id})

\* C1: a content or history accessor (get_file, get_all_changes,
\* get_change_content of an existing change, get_operation_details) called by
\* a user who has no Permission row on the operation returns False and no data
C1_NonMemberAccessorsFail ==
    (last.call \in Accessors /\ last.level = "none")
        => (last.ret.tag = "False" /\ last.ret.val = <<>>)

\* a user without a Permission row asked for the content of an existing change
C1_Witness ==
    /\ last.call = "get_change_content"
    /\ last.level = "none"
    /\ last.ret.tag = "False"
    /\ Change # {}

\* C2: save_file by a user with no Permission row on the operation returns
\* False and changes neither the content, the commits nor the Change rows
C2_SaveFileMembersOnly ==
    [][(last'.call = "save_file" /\ last'.level = "none")
          => (last'.ret.tag = "False" /\ dirs' = dirs /\ Change' = Change)]_vars

\* C3: no call made by a viewer changes content, commits, Change rows or
\* version names, or a Permission row of another user
C3_ViewerReadOnly ==
    [][(last'.level = "viewer")
          => /\ dirs' = dirs
             /\ Change' = Change
             /\ Operation' = Operation
             /\ \E u \in Users :
                    \A r \in DOMAIN Permission \cup DOMAIN Permission' :
                        r.u_id # u => /\ r \in DOMAIN Permission
                                      /\ r \in DOMAIN Permission'
                                      /\ Permission'[r] = Permission[r]]_vars

\* C4: save_file with content identical to the current content returns False,
\* creates no commit and appends no Change row, each time it is called
C4_SaveIdenticalIsNoOp ==
    [][\A op \in OpIds, u \in Users, c \in Texts :
          (/\ last'.call = "save_file"
           /\ OpExists(op)
           /\ dirs[OpById(op).path].file = c
           /\ save_file(op, c, u))
          => (last'.ret.tag = "False" /\ dirs' = dirs /\ Change' = Change)]_vars

\* save_file returned False on an operation that has history and whose
\* content is the content of its last commit
C4_Witness ==
    /\ last.call = "save_file"
    /\ last.ret.tag = "False"
    /\ last.level \in MemberLevels
    /\ \E o \in Operation :
           /\ Len(dirs[o.path].commits) > 1
           /\ dirs[o.path].file = dirs[o.path].commits[Len(dirs[o.path].commits)]

\* what an effective save does: the content becomes the new content, one
\* commit holding it is added, one Change row of the user points at it
SavedOnce(op, u, c) ==
    LET path == OpById(op).path
    IN /\ last'.ret.tag = "True"
       /\ dirs'[path].file = c
       /\ dirs'[path].commits = Append(dirs[path].commits, c)
       /\ \E row \in Change' :
              /\ Change' = Change \cup {row}
              /\ row \notin Change
              /\ row.op_id = op /\ row.u_id = u
              /\ row.commit_hash = Len(dirs'[path].commits)
       /\ historyLen(op)' = historyLen(op) + 1

\* C5: save_file by a member with content different from the
\* current content returns True, adds one commit and one Change row of the user
C5_SaveDifferentAppends ==
    [][\A op \in OpIds, u \in Users, c \in Texts :
          (/\ last'.call = "save_file"
           /\ OpExists(op) /\ is_member(u, op)
           /\ dirs[OpById(op).path].file # c
           /\ save_file(op, c, u))
          => SavedOnce(op, u, c)]_vars

\* C6: after a successful create_operation, get_file by the creating user
\* returns the supplied content, or the stub document when none was supplied
C6_CreateThenGetFile ==
    [][\A p \in FilePaths, u \in Users, c \in Contents, id \in OpIds :
          (/\ last'.call = "create_operation"
           /\ id = nextOpId
           /\ create_operation(p, u, c, <<"default">>, TRUE)
           /\ last'.ret.tag = "True")
          => getFile(id, u)' = RValue(IF c = None THEN STUB_CODE ELSE c)]_vars

\* an operation was created with supplied content
C6_Witness ==
    /\ last.call = "create_operation"
    /\ last.ret.tag = "True"
    /\ \E o \in Operation : dirs[o.path].file = <<"b">>

\* C7: a successful undo_changes makes get_file return the content recorded
\* at the change's commit, adds that content as one new commit on top of the
\* history and appends one Change row of the acting user
C7_UndoRestoresContent ==
    [][\A ch \in ChangeIds, u \in Users :
          (/\ last'.call = "undo_changes"
           /\ ChangeExists(ch)
           /\ undo_changes(ch, u)
           /\ last'.ret.tag = "True")
          => LET op == ChangeById(ch).op_id
                 path == OpById(op).path
                 recorded == dirs[path].commits[ChangeById(ch).commit_hash]
             IN /\ dirs'[path].file = recorded
                /\ dirs'[path].commits = Append(dirs[path].commits, recorded)
                /\ \E row \in Change' :
                       /\ Change' = Change \cup {row}
                       /\ row \notin Change
                       /\ row.op_id = op /\ row.u_id = u]_vars

creatorsOf(op_id) ==
    {r.u_id : r \in {x \in DOMAIN Permission : x.op_id = op_id /\ x.access_level = "creator"}}

\* C9: every operation has exactly one creator row, which no bulk permission
\* call removes, changes or gives to another user
C9_CreatorKept ==
    [][\A id \in OpIds :
          OpExists(id)' =>
              /\ Cardinality(creatorsOf(id)') = 1
              /\ RowCount(Permission', CHOOSE c \in creatorsOf(id)' : TRUE, id) = 1
              /\ OpExists(id) => creatorsOf(id)' = creatorsOf(id)]_vars

\* C10: delete_bulk_permission by a member who is neither admin nor creator
\* returns True exactly when the target list is [requester]; otherwise it
\* removes no row; the rows it removes are the requester's
C10_SelfLeaveOnly ==
    [][(last'.call = "delete_bulk_permission"
          /\ last'.level \in {"collaborator", "viewer"})
       => \A op \in OpIds, u \in Users, ids \in IdLists :
          (/\ auth_type(u, op) \in {"collaborator", "viewer"}
           /\ delete_bulk_permission(op, u, ids))
          => /\ (last'.ret.tag = "True") <=> (ids = <<u>>)
             /\ last'.ret.tag \in {"True", "False"}
             /\ last'.ret.tag = "False" => Permission' = Permission
             /\ \A r \in DOMAIN Permission :
                    (r \notin DOMAIN Permission' \/ Permission'[r] # Permission[r])
                        => r.u_id = u
             /\ DOMAIN Permission' \subseteq DOMAIN Permission]_vars

\* a collaborator or viewer has left the operation
C10_Witness ==
    /\ last.call = "delete_bulk_permission"
    /\ last.level \in {"collaborator", "viewer"}
    /\ last.ret.tag = "True"

\* C11: delete_bulk_permission by the creator of an operation with the
\* creator's own id among the targets returns False and removes no row
C11_CreatorCannotLeave ==
    [][(last'.call = "delete_bulk_permission" /\ last'.level = "creator")
       => \A op \in OpIds, u \in Users, ids \in IdLists :
              (/\ is_creator(u, op)
               /\ u \in Range(ids)
               /\ delete_bulk_permission(op, u, ids))
              => (last'.ret = RFalse /\ Permission' = Permission)]_vars

\* the creator was refused although every user is a member of the operation:
\* the creator's own id was among the targets
C11_Witness ==
    /\ last.call = "delete_bulk_permission"
    /\ last.level = "creator"
    /\ last.ret.tag = "False"
    /\ \E o \in Operation : \A u \in Users : is_member(u, o.id)
    /\ Cardinality(Operation) = 1

\* C12: delete_bulk_permission by an admin or creator with a target who is
\* not a member of the operation returns False and removes no Permission
\* row, on the operation or on any other
C12_DeleteBatchFailsWhole ==
    [][(last'.call = "delete_bulk_permission" /\ last'.level \in {"admin", "creator"})
       => \A op \in OpIds, u \in Users, ids \in IdLists :
              (/\ auth_type(u, op) \in {"admin", "creator"}
               /\ \E x \in Range(ids) : ~is_member(x, op)
               /\ delete_bulk_permission(op, u, ids))
              => (last'.ret = RFalse /\ Permission' = Permission)]_vars

\* an admin was refused: an admin is refused only for a target who is not a
\* member; the operation is a template with operations in its category
C12_Witness ==
    /\ last.call = "delete_bulk_permission"
    /\ last.level = "admin"
    /\ last.ret.tag = "False"
    /\ \E t \in Operation, o \in Operation :
           /\ endswithGroup(t.path) /\ ~endswithGroup(o.path)
           /\ o.category = splitGroup0(t.path)
           /\ \E u \in Users : is_admin(u, t.id) /\ ~is_member(u, o.id) /\
                  \E x \in Users : ~is_member(x, t.id) /\ is_member(x, o.id)

\* C13: add_bulk_permission, modify_bulk_permission and update_operation
\* called by a user who is neither admin nor creator of the operation return
\* False and leave Permission rows, Operation rows and directories unchanged
C13_AdminOrCreatorOnly ==
    [][(/\ last'.call \in {"add_bulk_permission", "modify_bulk_permission",
                           "update_operation"}
        /\ last'.level \notin {"admin", "creator"})
       => (last'.ret = RFalse /\ db' = db)]_vars

\* a viewer asked for a rename and was refused
C13_Witness ==
    /\ last.call = "update_operation"
    /\ last.level = "viewer"
    /\ last.ret.tag = "False"

\* C14: undo_changes and set_version_name called by a user who is a viewer
\* or no member of the operation that owns the change return False and leave
\* content, commits, Change rows and version names unchanged
C14_HistoryWritersOnly ==
    [][/\ (last'.call = "undo_changes" /\ last'.level \in {"viewer", "none"})
          => (last'.ret = RFalse /\ db' = db)
       /\ (last'.call = "set_version_name")
          => \A ch \in ChangeIds, op \in OpIds, u \in Users, name \in VersionNames :
                 (/\ ChangeExists(ch)
                  /\ auth_type(u, ChangeById(ch).op_id) \in {"viewer", "none"}
                  /\ set_version_name(ch, op, u, name))
                 => (last'.ret = RFalse /\ db' = db)]_vars

\* operation id op_id is a Group template
isTemplate(op_id) == OpExists(op_id) /\ endswithGroup(OpById(op_id).path)

\* the operations a bulk call on template op_id is to be mirrored onto: the
\* operations of the template's category that are no templates
mirrorsOf(op_id) ==
    {o \in Operation : /\ ~endswithGroup(o.path)
                       /\ o.category = splitGroup0(OpById(op_id).path)}

\* C15: after a successful add_bulk_permission on a Group template, every
\* listed user holds the given level on every operation of the template's
\* category that is no template
C15_AddMirroredForAll ==
    [][(last'.call = "add_bulk_permission" /\ last'.ret.tag = "True")
       => \A op \in OpIds, u \in Users, ids \in GroupIds, lvl \in PermLevels :
              (isTemplate(op) /\ add_bulk_permission(op, u, ids, lvl))
              => \A x \in Range(ids), o \in mirrorsOf(op) :
                     PermFirst(Permission', x, o.id) = lvl]_vars

\* C16: after a successful modify_bulk_permission or delete_bulk_permission
\* on a Group template, on every operation of its category that is no
\* template each listed member has the new level (modify) and no listed user
\* is a member (delete)
C16_ModifyDeleteMirrored ==
    [][/\ (last'.call = "modify_bulk_permission" /\ last'.ret.tag = "True")
          => \A op \in OpIds : isTemplate(op) =>
             \A u \in Users : auth_type(u, op) = last'.level =>
             \A ids \in DistinctIds, lvl \in PermLevels :
                 modify_bulk_permission(op, u, ids, lvl)
                 => \A x \in Range(ids), o \in mirrorsOf(op) :
                        /\ is_member(x, o.id)
                           => PermFirst(Permission', x, o.id) = lvl
                        /\ ~is_member(x, o.id)
                           => PermFirst(Permission', x, o.id) = "none"
       /\ (last'.call = "delete_bulk_permission" /\ last'.ret.tag = "True")
          => \A op \in OpIds : isTemplate(op) =>
             \A u \in Users : auth_type(u, op) = last'.level =>
             \A ids \in DistinctIds :
                 delete_bulk_permission(op, u, ids)
                 => \A x \in Range(ids), o \in mirrorsOf(op) :
                        PermFirst(Permission', x, o.id) = "none"]_vars

\* a delete on a template went through while an operation of its category
\* exists, and every user it can have named has no row on that operation
C16_Witness ==
    /\ last.call = "delete_bulk_permission"
    /\ last.level \in {"admin", "creator"}
    /\ last.ret.tag = "True"
    /\ \E t \in Operation :
           /\ endswithGroup(t.path)
           /\ mirrorsOf(t.id) # {}
           /\ \E x \in Users : /\ ~is_member(x, t.id)
                               /\ \A o \in mirrorsOf(t.id) : ~is_member(x, o.id)
           /\ \E x \in Users : /\ is_member(x, t.id)
                               /\ \E o \in mirrorsOf(t.id) : is_member(x, o.id)

\* the Permission rows of operation op_id in table P
rowsOf(P, op_id) == [r \in {x \in DOMAIN P : x.op_id = op_id} |-> P[r]]

\* C17: a bulk add, modify or delete on a Group template changes no
\* Permission row of any other operation whose path ends with the postfix
C17_OtherTemplatesUntouched ==
    [][(last'.call \in {"add_bulk_permission", "modify_bulk_permission",
                        "delete_bulk_permission"})
       => \A op \in OpIds, u \in Users, ids \in GroupIds, lvl \in PermLevels :
              (/\ isTemplate(op)
               /\ \/ add_bulk_permission(op, u, ids, lvl)
                  \/ modify_bulk_permission(op, u, ids, lvl)
                  \/ delete_bulk_permission(op, u, ids))
              => \A o \in Operation :
                     (o.id # op /\ endswithGroup(o.path))
                     => rowsOf(Permission', o.id) = rowsOf(Permission, o.id)]_vars

\* C18: import_permissions returns (False, None, message) and changes no
\* Permission row when the requester is not admin or creator of current_op
\* or is not a member of import_op
C18_ImportRefused ==
    [][(last'.call = "import_permissions")
       => \A imp \in OpIds, cur \in OpIds, u \in Users :
              (/\ \/ auth_type(u, cur) \notin {"admin", "creator"}
                  \/ ~is_member(u, imp)
               /\ import_permissions(imp, cur, u))
              => /\ last'.ret.tag = "False"
                 /\ last'.ret.val \in {<<"Not the creator or admin of this operation">>,
                                       <<"Not a member of this operation">>}
                 /\ Permission' = Permission]_vars

\* an admin or creator of current_op was refused for not being a member of
\* import_op
C18_Witness ==
    /\ last.call = "import_permissions"
    /\ last.level \in {"admin", "creator"}
    /\ last.ret = [tag |-> "False", val |-> <<"Not a member of this operation">>]

\* the rows of user u on operation op_id in table P
rowsOfUser(P, u, op_id) ==
    [r \in {x \in DOMAIN P : x.op_id = op_id /\ x.u_id = u} |-> P[r]]

\* the creator rows of operation op_id in table P
creatorRows(P, op_id) ==
    [r \in {x \in DOMAIN P : x.op_id = op_id /\ x.access_level = "creator"} |-> P[r]]

\* C19: after an import_permissions call the creator row of current_op is
\* as before, the requester's row on current_op is as before, and a creator
\* of import_op who was copied holds admin on current_op
C19_ImportKeepsCreator ==
    [][(last'.call = "import_permissions")
       => \A imp \in OpIds, cur \in OpIds, u \in Users :
              import_permissions(imp, cur, u)
              => /\ creatorRows(Permission', cur) = creatorRows(Permission, cur)
                 /\ rowsOfUser(Permission', u, cur) = rowsOfUser(Permission, u, cur)
                 /\ \A x \in Users :
                        (/\ last'.ret.tag = "True"
                         /\ is_creator(x, imp)
                         /\ x # u /\ ~is_creator(x, cur))
                        => PermFirst(Permission', x, cur) = "admin"]_vars

\* an import has added a user who is creator of another operation, as admin
C19_Witness ==
    /\ last.call = "import_permissions"
    /\ last.ret.tag = "True"
    /\ \E x \in Users, o1 \in Operation, o2 \in Operation :
           /\ x \in last.ret.val[1].add_users
           /\ is_creator(x, o1.id)
           /\ is_admin(x, o2.id)

\* C20: after a successful import_permissions every user other than the
\* requester and the creator of current_op is a member of current_op exactly
\* when a member of import_op, at the imported level (creator read as admin),
\* and add_users, delete_users and modify_users are the users added, removed
\* and changed in level on current_op
C20_ImportCopiesAndReports ==
    [][(last'.call = "import_permissions" /\ last'.ret.tag = "True")
       => \A imp \in OpIds, cur \in OpIds, u \in Users :
              import_permissions(imp, cur, u)
              => LET before(x) == PermFirst(Permission, x, cur)
                     after(x) == PermFirst(Permission', x, cur)
                     from(x) == PermFirst(Permission, x, imp)
                     events == last'.ret.val[1]
                 IN /\ \A x \in Users \ ({u} \cup creatorsOf(cur)) :
                           after(x) = IF from(x) = "creator" THEN "admin" ELSE from(x)
                    /\ events.add_users =
                           {x \in Users : before(x) = "none" /\ after(x) # "none"}
                    /\ events.delete_users =
                           {x \in Users : before(x) # "none" /\ after(x) = "none"}
                    /\ events.modify_users =
                           {x \in Users : /\ before(x) # "none" /\ after(x) # "none"
                                          /\ before(x) # after(x)}]_vars

\* C21: import_permissions called twice in succession with the same
\* arguments and no permission change in between: the second call returns
\* (False, None, "Permissions are already given") and changes no row
C21_ImportIdempotent ==
    [][(last'.call = "import_permissions" /\ last'.ret.tag = "True")
       => \A imp \in OpIds, cur \in OpIds, u \in Users :
              import_permissions(imp, cur, u)
              => \A c \in firstCreator(Permission', cur) :
                     LET second == importPermissionsWith(Permission', imp, cur, u, c)
                     IN /\ second.ret = [tag |-> "False",
                                         val |-> <<"Permissions are already given">>]
                        /\ second.P = Permission']_vars

\* an operation id that was given out and has no Operation row any more
deleted(op_id) == op_id < nextOpId /\ ~OpExists(op_id)

C23_DeletedOnlyByCreatorAndTerminal ==
    [][/\ \A op \in OpIds :
              (OpExists(op) /\ ~(OpExists(op))')
              => /\ last'.call = "delete_operation"
                 /\ last'.level = "creator"
                 /\ last'.ret.tag = "True"
                 /\ \E u \in Users : is_creator(u, op) /\ delete_operation(op, u)
       /\ (last'.call = "delete_operation" /\ last'.level # "creator")
              => /\ last'.ret.tag = "False"
                 /\ UNCHANGED db
       /\ \A op \in OpIds : deleted(op) =>
              /\ (deleted(op))'
              /\ \A r \in DOMAIN Permission' : r.op_id # op
              /\ \A c \in Change' : c.op_id # op
              /\ \A u \in Users :
                     /\ \A ids \in OneId, lvl \in LifeLevels :
                            add_bulk_permission(op, u, ids, lvl) => last'.ret.tag = "False"
                     /\ \A p \in LifePaths :
                            update_operation(op, "path", p, u) => last'.ret.tag = "False"
                     /\ delete_operation(op, u) => last'.ret.tag = "False"
                     /\ get_operation_details(op, u) => last'.ret.tag = "False"
                     /\ \A c \in LifeTexts :
                            save_file(op, c, u) => last'.ret.tag = "False"
                     /\ get_file(op, u) => last'.ret.tag = "False"]_vars

\* an admin was refused by delete_operation, and an operation is deleted
C23_Witness ==
    /\ last.call = "delete_operation"
    /\ last.level = "admin"
    /\ last.ret.tag = "False"
    /\ \E op \in OpIds : deleted(op)

\* the paths of the Operation rows are pairwise distinct
PathsDistinct == \A o1 \in Operation, o2 \in Operation : o1.path = o2.path => o1 = o2

\* C24: create_operation with a path that holds '/', '\' or a space, or
\* that is the path of an Operation row, returns False and makes no
\* Operation row, no Permission row and no directory; the paths of the
\* Operation rows stay pairwise distinct
C24_CreateRefusesBadPaths ==
    [][/\ (last'.call = "create_operation")
          => \A p \in LifePaths, u \in Users :
                 (/\ \/ \E i \in 1..Len(p) : p[i] = "/" \/ p[i] = "\\" \/ p[i] = " "
                     \/ \E o \in Operation : o.path = p
                  /\ create_operation(p, u, None, <<"default">>, TRUE))
                 => /\ last'.ret.tag = "False"
                    /\ Operation' = Operation
                    /\ Permission' = Permission
                    /\ dirs' = dirs
       /\ PathsDistinct']_vars

\* a create_operation was refused while two operations exist
C24_Witness ==
    /\ last.call = "create_operation"
    /\ last.ret.tag = "False"
    /\ Cardinality(Operation) = 2

\* C25: a successful create_operation leaves the new operation with exactly
\* one creator row, the initiating user's; and when '<category>Group' exists
\* and the new path is not a template, every other member of the template is
\* a member of the new operation at the template's level, creator as admin
C25_CreateSeedsFromTemplate ==
    [][(last'.call = "create_operation" /\ last'.ret.tag = "True")
       => \A p \in PermPaths, u \in Users, cat \in PermCategories :
              create_operation(p, u, <<>>, cat, TRUE)
              => LET new == nextOpId
                     templates == {o \in Operation : o.path = cat \o <<GROUP_POSTFIX>>}
                 IN /\ {r \in DOMAIN Permission' : r.op_id = new /\ r.access_level = "creator"}
                           = {Row(u, new, "creator")}
                    /\ Permission'[Row(u, new, "creator")] = 1
                    /\ (~endswithGroup(p))
                       => \A t \in templates, x \in Users \ {u} :
                              LET lvl == PermFirst(Permission, x, t.id)
                              IN lvl # "none"
                                 => PermFirst(Permission', x, new) =
                                        IF lvl = "creator" THEN "admin" ELSE lvl]_vars

\* C26: update_operation(op, "path", value, user) by an admin or creator
\* returns False and leaves the Operation rows and the directories as they
\* are when value holds '/', '\' or a space or when the target exists;
\* otherwise it returns True, the directory is at the new path, get_file
\* returns the same content as before, and the paths stay pairwise distinct
C26_RenameMovesDirectory ==
    [][(last'.call = "update_operation" /\ last'.level \in {"admin", "creator"})
       => \A op \in OpIds, u \in Users, value \in PermPaths \cup LifePaths :
              update_operation(op, "path", value, u)
              => IF \/ \E i \in 1..Len(value) :
                          value[i] = "/" \/ value[i] = "\\" \/ value[i] = " "
                    \/ value \in DOMAIN dirs
                    \/ \E o \in Operation : o.path = value
                 THEN /\ last'.ret.tag = "False"
                      /\ Operation' = Operation
                      /\ dirs' = dirs
                 ELSE /\ last'.ret.tag = "True"
                      /\ \E o \in Operation' : o.id = op /\ o.path = value
                      /\ value \in DOMAIN dirs'
                      /\ OpById(op).path \notin DOMAIN dirs'
                      /\ (getFile(op, u))' = getFile(op, u)
                      /\ PathsDistinct']_vars

\* C27: after update_operation has renamed an operation to '<category>Group',
\* every other operation of the category carries the renamed operation's
\* permissions (creator as admin) for every user but its own creator and the
\* requester, whatever the requester's level on that operation
C27_RenameToTemplatePropagates ==
    [][(last'.call = "update_operation" /\ last'.ret.tag = "True")
       => \A op \in OpIds, u \in AllUsers, value \in RenamePaths :
              (endswithGroup(value) /\ update_operation(op, "path", value, u))
              => \A o \in Operation :
                     (o.id # op /\ o.category = splitGroup0(value))
                     => \A x \in AllUsers \ {u} :
                            ~is_creator(x, o.id)
                            => LET lvl == PermFirst(Permission, x, op)
                               IN PermFirst(Permission', x, o.id) =
                                      IF lvl = "creator" THEN "admin" ELSE lvl]_vars

\* C28: when a member of an operation calls list_operations more than
\* ARCHIVE_THRESHOLD days after the operation's last_used, the operation is
\* archived when the call returns, whatever the member's level; an operation
\* that is not idle for longer than the threshold is not archived by the call
C28_ListArchivesOutdated ==
    [][(last'.call = "list_operations")
       => \A u \in Users, skip_archived \in BOOLEAN, now \in Instants :
              list_operations(u, skip_archived, now)
              => \A o \in Operation :
                     LET after == CHOOSE x \in Operation' : x.id = o.id
                     IN /\ (is_member(u, o.id) /\ now - o.last_used > ARCHIVE_THRESHOLD)
                           => after.active = FALSE
                        /\ (now - o.last_used <= ARCHIVE_THRESHOLD)
                           => after.active = o.active]_vars

\* C29: an archived operation is active again after a successful save_file
\* or undo_changes on it, and its last_used is refreshed
C29_MutationReactivates ==
    [][(last'.call \in {"save_file", "undo_changes"} /\ last'.ret.tag = "True")
       => \A o \in Operation :
              (/\ ~o.active
               /\ \/ \E u \in Users, c \in ArchiveTexts : save_file(o.id, c, u)
                  \/ \E u \in Users, ch \in ChangeIds :
                         /\ ChangeExists(ch) /\ ChangeById(ch).op_id = o.id
                         /\ undo_changes(ch, u))
              => LET after == CHOOSE x \in Operation' : x.id = o.id
                 IN /\ after.active
                    /\ after.last_used > o.last_used]_vars

\* C30: when two save_file calls on the same operation, with contents that
\* differ from the content they read and from each other, have both
\* returned, the history ends with two commits that hold the two contents,
\* each Change row points at the commit that holds its user's content, and
\* main.ftml holds the content of the last commit
C30_InterleavedSavesKeepBoth ==
    \A u1 \in Users, u2 \in Users :
        (/\ u1 # u2
         /\ inflight[u1].pc = "done" /\ inflight[u2].pc = "done"
         /\ inflight[u1].ret = RTrue /\ inflight[u2].ret = RTrue
         /\ inflight[u1].op_id = inflight[u2].op_id
         /\ inflight[u1].content # inflight[u2].content)
        => LET dir == dirs[OpById(inflight[u1].op_id).path]
               n == Len(dir.commits)
           IN /\ {dir.commits[n - 1], dir.commits[n]} =
                     {inflight[u1].content, inflight[u2].content}
              /\ \A c \in Change :
                     dir.commits[c.commit_hash] = inflight[c.u_id].content
              /\ dir.file = dir.commits[n]

\* C31: when the backing store fails at a step of undo_changes (reading the
\* old content, writing main.ftml, staging, committing), undo_changes returns
\* False and the content, the commits and the Change rows are as before
C31_UndoFailureChangesNothing ==
    [][(last'.call = "undo_changes")
       => \A ch \in ChangeIds, u \in Users, fault \in UndoFaults :
              undo_changes_failing(ch, u, fault)
              => /\ last'.ret = RFalse
                 /\ dirs' = dirs
                 /\ Change' = Change]_vars

\* C32: undo_changes and get_change_content called with a change id that
\* does not exist return False and do not raise
C32_MissingChangeReturnsFalse ==
    [][(last'.call \in {"undo_changes", "get_change_content"})
       => \A ch \in ChangeIds, u \in Users :
              (/\ ~ChangeExists(ch)
               /\ undo_changes(ch, u) \/ get_change_content(ch, u))
              => last'.ret = RFalse]_vars

\* C37: in every state the Change rows of an operation reference distinct
\* commits of its repository and are as many as the commits after the
\* initial one; get_change_content of a Change returns the content that the
\* call which made the Change saved or restored, and alters nothing
C37_ChangesIndexHistory ==
    /\ [](\A o \in Operation :
             LET rows == {c \in Change : c.op_id = o.id}
             IN HasFile(o.path)
                => /\ \A c \in rows : c.commit_hash \in 2..Len(dirs[o.path].commits)
                   /\ \A c, d \in rows : c.commit_hash = d.commit_hash => c = d
                   /\ Cardinality(rows) = Len(dirs[o.path].commits) - 1)
    /\ [][(last'.call = "get_change_content")
          => \A ch \in ChangeIds, u \in Users :
                 (/\ ChangeExists(ch)
                  /\ is_member(u, ChangeById(ch).op_id)
                  /\ get_change_content(ch, u))
                 => LET change == ChangeById(ch)
                        saved == dirs[OpById(change.op_id).path].commits[change.commit_hash]
                    IN /\ last'.ret = RValue(saved)
                       /\ dirs' = dirs]_vars

\* C38: when save_file returns False for an operation that exists, the
\* content of its main.ftml is what it was before the call, whatever the
\* old and the new content (also when their lines are the same)
C38_SaveFalseKeepsContent ==
    [][(last'.call = "save_file" /\ last'.ret = RFalse)
       => \A op \in OpIds, u \in Users, c \in Texts :
              (OpExists(op) /\ save_file(op, c, u))
              => /\ dirs'[OpById(op).path].file = dirs[OpById(op).path].file
                 /\ (getFile(op, u))' = getFile(op, u)]_vars

\* the ids of a listing returned by get_all_changes
listedIds(ret) == {ret.val[i].id : i \in DOMAIN ret.val}

\* C34: get_all_changes of a member returns the Changes of the operation,
\* the newest at index 0 and each older than the one before it; with the
\* named-only flag it returns the entries of that list whose version_name
\* is not null, in the same order
C34_ChangesNewestFirst ==
    [][(last'.call = "get_all_changes")
       => \A op \in OpIds, u \in Users, named \in BOOLEAN :
              (is_member(u, op) /\ get_all_changes(op, u, named))
              => LET all == getAllChanges(op, u, FALSE).val
                     got == last'.ret.val
                 IN /\ last'.ret.tag = "value"
                    /\ {e.id : e \in Range(all)} = {c.id : c \in {c \in Change : c.op_id = op}}
                    /\ Len(all) = Cardinality({c \in Change : c.op_id = op})
                    /\ \A i \in DOMAIN all :
                           /\ \A j \in DOMAIN all : i < j => all[i].id > all[j].id
                           /\ all[i].version_name = ChangeById(all[i].id).version_name
                           /\ all[i].username = ChangeById(all[i].id).u_id
                    /\ got = IF named
                             THEN SelectSeq(all, LAMBDA e : e.version_name # None)
                             ELSE all]_vars

C34_Witness ==
    /\ last.call = "get_all_changes"
    /\ last.ret.tag = "value"
    /\ Len(last.ret.val) = 2
    /\ last.ret.val[1].id > last.ret.val[2].id
    /\ last.ret.val[1].version_name = None
    /\ last.ret.val[2].version_name # None

\* C35: a set_version_name that returns True sets the version_name of the
\* Change with the given id to the given name (None clears it) and leaves
\* its other fields, the other Changes and the number of Changes as they
\* were; the Change is in the named-only listing of its operation
\* afterwards exactly when the name is not None
C35_SetVersionNameExact ==
    [][(last'.call = "set_version_name" /\ last'.ret = RTrue)
       => \A old \in Change, op \in GivenOpIds, u \in Users, name \in VersionNames :
              (auth_type(u, op) = last'.level /\ set_version_name(old.id, op, u, name))
              => LET ch == old.id
                 IN /\ Change' = (Change \ {old}) \cup {[old EXCEPT !.version_name = name]}
                    /\ Cardinality(Change') = Cardinality(Change)
                    /\ dirs' = dirs
                    /\ \A m \in Users :
                           is_member(m, old.op_id)
                           => /\ Len((getAllChanges(old.op_id, m, FALSE))'.val)
                                   = Len(getAllChanges(old.op_id, m, FALSE).val)
                              /\ (ch \in listedIds(getAllChanges(old.op_id, m, TRUE)'))
                                   <=> (name # None)]_vars

C35_Witness ==
    /\ last.call = "set_version_name"
    /\ last.ret = RTrue
    /\ \E c, d \in Change : /\ c.op_id = d.op_id
                            /\ c.version_name # None
                            /\ d.version_name = None

\* C39: set_version_name(ch_id, op_id, u_id, name) changes the version
\* name of no Change that belongs to another operation than op_id
C39_RenameWithinOperation ==
    [][(last'.call = "set_version_name")
       => \A ch \in ChangeIds, op \in OpIds, u \in Users, name \in VersionNames :
              set_version_name(ch, op, u, name)
              => \A c \in Change :
                     c.op_id # op
                     => \E d \in Change' : d.id = c.id /\ d.version_name = c.version_name]_vars

\* the Change rows of the next state whose id no Change row has now
madeRows == {d \in Change' : \A c \in Change : c.id # d.id}

\* C36: a save_file or undo_changes that returns True makes exactly one
\* Change row and no other call makes one; the operation, the user and the
\* commit_hash of a Change row never change; a Change row goes away only in
\* a delete_operation of its operation
C36_ChangesAppendOnly ==
    [][/\ IF last'.call \in {"save_file", "undo_changes"} /\ last'.ret = RTrue
          THEN Cardinality(madeRows) = 1
          ELSE madeRows = {}
       /\ Cardinality(Change') = Cardinality({d.id : d \in Change'})
       /\ \A c \in Change :
              \/ \E d \in Change' : /\ d.id = c.id
                                    /\ d.op_id = c.op_id
                                    /\ d.u_id = c.u_id
                                    /\ d.commit_hash = c.commit_hash
              \/ /\ last'.call = "delete_operation"
                 /\ last'.ret = RTrue
                 /\ OpExists(c.op_id)
                 /\ ~(OpExists(c.op_id))'
                 /\ \A d \in Change' : d.id # c.id]_vars

C36_Witness ==
    /\ last.call = "delete_operation"
    /\ last.ret = RTrue
    /\ \E op \in OpIds : deleted(op)
    /\ \E c \in Change : c.version_name # None /\ c.id = 2

\* C33: an add_bulk_permission by an admin or creator of a Group template
\* whose last listed user already has a row on an operation of the
\* category (the commit then meets a second row for that user and
\* operation) returns False, and every Permission row is as before the call
C33_DuplicateInsertRollsBack ==
    [][(last'.call = "add_bulk_permission" /\ last'.level \in {"admin", "creator"})
       => \A op \in OpIds, u \in Users :
              (/\ isTemplate(op)
               /\ is_admin(u, op) \/ is_creator(u, op)
               /\ auth_type(u, op) = last'.level)
              => \A ids \in DistinctIds, lvl \in PermLevels :
                     (/\ ids # <<>>
                      /\ \E o \in mirrorsOf(op) :
                             RowCount(Permission, ids[Len(ids)], o.id) > 0
                      /\ add_bulk_permission(op, u, ids, lvl))
                     => /\ last'.ret = RFalse
                        /\ Permission' = Permission]_vars

C33_Witness ==
    /\ last.call = "add_bulk_permission"
    /\ last.ret = RFalse
    /\ last.level \in {"admin", "creator"}

\* copies of row r in table P
copiesOf(P, r) == IF r \in DOMAIN P THEN P[r] ELSE 0

\* the Permission rows that a step adds, removes or changes the number of
changedRows ==
    {r \in DOMAIN Permission \cup DOMAIN Permission' :
        copiesOf(Permission', r) # copiesOf(Permission, r)}

\* C40: a bulk add, modify or delete on an operation whose path does not
\* end with the postfix leaves the Permission rows of every other operation
\* and of every user that is not listed as they were
C40_PlainBulkStaysLocal ==
    [][(/\ last'.call \in {"add_bulk_permission", "modify_bulk_permission",
                           "delete_bulk_permission"}
        /\ changedRows # {})
       => \A op \in OpIds, u \in Users :
              (/\ OpExists(op)
               /\ ~endswithGroup(OpById(op).path)
               /\ auth_type(u, op) = last'.level)
              => \A ids \in DistinctIds :
                     (\/ /\ last'.call = "add_bulk_permission"
                         /\ \E lvl \in PermLevels : add_bulk_permission(op, u, ids, lvl)
                      \/ /\ last'.call = "modify_bulk_permission"
                         /\ \E lvl \in PermLevels : modify_bulk_permission(op, u, ids, lvl)
                      \/ /\ last'.call = "delete_bulk_permission"
                         /\ delete_bulk_permission(op, u, ids))
                     => \A r \in changedRows : r.op_id = op /\ r.u_id \in Range(ids)]_vars

C40_Witness ==
    /\ last.call = "delete_bulk_permission"
    /\ last.ret = RTrue
    /\ last.level = "viewer"
    /\ \E o, t \in Operation :
           /\ ~endswithGroup(o.path)
           /\ endswithGroup(t.path)
           /\ \E x, y \in Users : /\ RowCount(Permission, x, t.id) > 0
                                  /\ RowCount(Permission, x, o.id) = 0
                                  /\ RowCount(Permission, y, t.id) > 0
                                  /\ RowCount(Permission, y, o.id) > 0
====
